---- MODULE Spec2Model ----
(***************************************************************************)
(* Model of squat.eddy.extract.main: the per-subject extraction of QC      *)
(* metrics from the outputs of an EDDY run (src/squat/eddy/extract.py).    *)
(*                                                                         *)
(* main() is one straight-line procedure.  pc is its position; one action  *)
(* models one block of main.  An exception ends the run: pc = "failed",    *)
(* exc is the exception raised.  Files, tables and images are inputs; each *)
(* is drawn where main reads it.                                           *)
(*                                                                         *)
(* Numbers read from text files are modelled as integers (exact            *)
(* arithmetic); means are exact rationals <<numerator, denominator>>.      *)
(***************************************************************************)
EXTENDS Integers, Sequences, FiniteSets, TLC

VARIABLES
    pc,         \* position in main()
    exc,        \* the exception that ended the run: [type, names] or NoExc
    log,        \* warnings printed or logged so far
    exists,     \* os.path.isfile as probed so far: path -> BOOLEAN
    args,       \* the optional arguments of the command line, as read so far
    eddybase,   \* args.eddybase (None when neither given nor detected)
    eddyfile,   \* the base image path chosen at lines 83-87
    rawPara,    \* the acquisition-parameter table as read (line 111)
    rawIdxs,    \* the volume index file as read (line 94)
    eddyIdxs,   \* eddyIdxs
    bvals,      \* bvals
    mask,       \* mask: the mask image path
    eddyPara,   \* eddyPara (flattened after line 118)
    bvecs,      \* bvecs (its numbers are not modelled)
    field,      \* field: None or the resolved field map path
    shape,      \* eddy_epi.shape, as <<slices, volumes>>
    data,       \* the data dictionary
    qc_data,    \* the qc_data dictionary
    motion,     \* motion: the table of .eddy_movement_rms (line 214)
    slspec,     \* slspec: the slice table in use by the s2v extractor
    s2v_params, \* s2v_params: the table of .eddy_movement_over_time
    qcjson      \* the file <output>/qc.json

vars == <<pc, exc, log, exists, args, eddybase, eddyfile, rawPara, rawIdxs, eddyIdxs,
          bvals, mask, eddyPara, bvecs, field, shape, data, qc_data,
          motion, slspec, s2v_params, qcjson>>

----------------------------------------------------------------------------
(* Bounds of the model *)

\* largest number of volumes (4th dimension of the base image, rows of files)
MaxVols == 2
\* largest number of rows of the acquisition-parameter file
MaxRows == 2

None == "None"
NoExc == [type |-> "none", names |-> {}]

----------------------------------------------------------------------------
(* Sequences and exact arithmetic *)

Range(s) == {s[i] : i \in 1..Len(s)}

SeqsUpTo(S, lo, hi) == UNION {[1..n -> S] : n \in lo..hi}

RECURSIVE Sum(_)
Sum(s) == IF s = <<>> THEN 0 ELSE Head(s) + Sum(Tail(s))

\* number of positions of s that satisfy Test
Count(s, Test(_)) == Cardinality({i \in 1..Len(s) : Test(s[i])})

RECURSIVE GCD(_, _)
GCD(a, b) == IF b = 0 THEN a ELSE GCD(b, a % b)

\* the rational n/d in lowest terms (d > 0, n >= 0)
Rat(n, d) == LET g == GCD(n, d) IN <<n \div g, d \div g>>

----------------------------------------------------------------------------
(* numpy arrays: a Python array is a sequence, indexed from 0 *)

PyIndexOK(arr, i) == -Len(arr) <= i /\ i < Len(arr)

PyAt(arr, i) == IF i < 0 THEN arr[Len(arr) + i + 1] ELSE arr[i + 1]

\* np.genfromtxt squeezes: a file of one row (or one column) is 1-D, and a
\* file holding one number is 0-D.
NdimOfTable(nrows, ncols) ==
    IF nrows >= 2 /\ ncols >= 2 THEN 2
    ELSE IF nrows >= 2 \/ ncols >= 2 THEN 1 ELSE 0

----------------------------------------------------------------------------
(* Acquisition Normalizer: extract.py lines 113-118 *)

\* The 8 bytes, as a little-endian IEEE-754 double, of each value that
\* occurs in the acquisition-parameter rows of the model.
Float64LE(x) ==
    CASE x = 0  -> <<0, 0, 0, 0, 0, 0, 0, 0>>
      [] x = 1  -> <<0, 0, 0, 0, 0, 0, 240, 63>>
      [] x = -1 -> <<0, 0, 0, 0, 0, 0, 240, 191>>
      [] x = 2  -> <<0, 0, 0, 0, 0, 0, 0, 64>>

\* line 114: the row viewed as one np.void item of itemsize * shape[1] bytes
RECURSIVE RowBytes(_)
RowBytes(row) ==
    IF row = <<>> THEN <<>> ELSE Float64LE(Head(row)) \o RowBytes(Tail(row))

\* the order np.unique sorts np.void items in: bytewise, as memcmp
BytesLess(a, b) ==
    \E i \in 1..Len(a) :
        /\ a[i] < b[i]
        /\ \A j \in 1..(i - 1) : a[j] = b[j]

RowLess(r1, r2) == BytesLess(RowBytes(r1), RowBytes(r2))

\* the items of S in ascending order
RECURSIVE SortRows(_)
SortRows(S) ==
    IF S = {} THEN <<>>
    ELSE LET m == CHOOSE r \in S : \A q \in S \ {r} : RowLess(r, q)
         IN <<m>> \o SortRows(S \ {m})

\* np.unique(ar, return_index=True, return_inverse=True) of line 115:
\* the sorted distinct items, the (0-based) index of the first occurrence of
\* each, and for each item of ar the (0-based) position of its value in the
\* sorted distinct items.
NpUnique(ar) ==
    LET u == SortRows(Range(ar))
    IN [unique  |-> u,
        idx     |-> [k \in 1..Len(u) |->
                        (CHOOSE i \in 1..Len(ar) :
                            /\ ar[i] = u[k]
                            /\ \A j \in 1..(i - 1) : ar[j] # u[k]) - 1],
        inv_idx |-> [i \in 1..Len(ar) |->
                        (CHOOSE k \in 1..Len(u) : u[k] = ar[i]) - 1]]

\* line 116 raises IndexError when an index is out of the table
RemapOK(table, idxs) ==
    \A v \in 1..Len(idxs) : PyIndexOK(table, idxs[v] - 1)

\* the indices left as they were read
RemapIdxs_NoRemap(table, idxs) == idxs

\* line 116: eddyIdxs = inv_idx[eddyIdxs-1]+1
RemapIdxs(table, idxs) ==
    LET inv_idx == NpUnique(table).inv_idx
    IN [v \in 1..Len(idxs) |-> PyAt(inv_idx, idxs[v] - 1) + 1]

\* the distinct rows taken in the order of their first occurrences, as
\* eddyPara[np.sort(idx)] would take them
DedupTable_ScanOrder(table) ==
    LET keep == {i \in 1..Len(table) : \A j \in 1..(i - 1) : table[j] # table[i]}
    IN [k \in 1..Cardinality(keep) |->
           table[CHOOSE i \in keep : Cardinality({j \in keep : j < i}) = k - 1]]

\* line 117: eddyPara = eddyPara[idx]
DedupTable(table) ==
    LET idx == NpUnique(table).idx
    IN [k \in 1..Len(idx) |-> PyAt(table, idx[k])]

\* line 118: eddyPara.flatten()
RECURSIVE Flatten(_)
Flatten(table) ==
    IF table = <<>> THEN <<>> ELSE Head(table) \o Flatten(Tail(table))

\* The acquisition-parameter rows of the model (phase-encode vector and
\* readout time, four columns as eddy's --acqp file has)
ParaRows == {<<0, -1, 0, 2>>, <<0, 1, 0, 2>>}

RowWidth == Len(CHOOSE r \in ParaRows : TRUE)

\* what Flatten undoes: the rows of a flattened table
Rows(flat) ==
    [k \in 1..(Len(flat) \div RowWidth) |->
        SubSeq(flat, (k - 1) * RowWidth + 1, k * RowWidth)]

----------------------------------------------------------------------------
(* Protocol Inference: extract.py lines 170-176 *)

\* b-values of the model
BValSet == {0, 1000}

\* utils.round_bvals is not among the sources: the Shell Label of the
\* specification, the b-value rounded to the nearest hundred
RoundBval(b) == ((b + 50) \div 100) * 100

round_bvals(bs) == [v \in 1..Len(bs) |-> RoundBval(bs[v])]

\* the numbers of S in ascending order (np.unique of a numeric array)
RECURSIVE SortInts(_)
SortInts(S) ==
    IF S = {} THEN <<>>
    ELSE LET m == CHOOSE x \in S : \A y \in S : x <= y
         IN <<m>> \o SortInts(S \ {m})

\* np.unique(ar, return_counts=True)
UniqueCounts(ar) ==
    LET u == SortInts(Range(ar))
    IN [unique |-> u,
        counts |-> [k \in 1..Len(u) |->
                       Cardinality({i \in 1..Len(ar) : ar[i] = u[k]})]]

\* the volumes of the shell or of the direction
ProtocolCell_Or(rounded, idxs, b, p) ==
    Cardinality({v \in 1..Len(rounded) : rounded[v] = b \/ idxs[v] = p})

\* lines 173-176: protocol[c_p, c_b] = ((rounded_bvals==b) & (eddyIdxs==p)).sum()
ProtocolCell(rounded, idxs, b, p) ==
    Cardinality({v \in 1..Len(rounded) : rounded[v] = b /\ idxs[v] = p})

Protocol(rounded, idxs) ==
    LET unique_bvals  == UniqueCounts(rounded).unique
        unique_pedirs == UniqueCounts(idxs).unique
    IN [c_p \in 1..Len(unique_pedirs) |->
           [c_b \in 1..Len(unique_bvals) |->
               ProtocolCell(rounded, idxs, unique_bvals[c_b], unique_pedirs[c_p])]]

\* arr[keep]: the items of arr at the positions where keep holds
RECURSIVE Select(_, _)
Select(arr, keep) ==
    IF arr = <<>> THEN <<>>
    ELSE (IF Head(keep) THEN <<Head(arr)>> ELSE <<>>)
         \o Select(Tail(arr), Tail(keep))

\* the threshold between b0 and diffusion-weighted volumes (lines 181-191)
B0Threshold == 100

\* Python values, with the type that record assembly (isinstance) and
\* json.dump tell apart
Arr(x)     == [t |-> "ndarray", v |-> x]
F64(x)     == [t |-> "float64", v |-> x]
PyFloat(x) == [t |-> "float", v |-> x]
PyInt(x)   == [t |-> "int", v |-> x]
PyStr(x)   == [t |-> "str", v |-> x]
PyTuple(of, x) == [t |-> "tuple", of |-> of, v |-> x]
PyList(x)  == [t |-> "list", v |-> x]
Image(x)   == [t |-> "image", v |-> x]

\* lines 178-199: the data dictionary
BuildData(efile, maskfile, bv, bvecArr, idxs, para, shp) ==
    LET rounded == round_bvals(bv)
        ub      == UniqueCounts(rounded)
        up      == UniqueCounts(idxs)
        dw      == [k \in 1..Len(ub.unique) |-> ub.unique[k] > B0Threshold]
    IN [subjid        |-> PyStr(efile),
        file_mask     |-> PyStr(maskfile),
        num_dw_vols   |-> PyInt(Cardinality({v \in 1..Len(bv) : bv[v] > B0Threshold})),
        num_b0_vols   |-> PyInt(Cardinality({v \in 1..Len(bv) : bv[v] <= B0Threshold})),
        protocol      |-> Arr(Flatten(Protocol(rounded, idxs))),
        num_pe_dirs   |-> PyInt(Len(up.unique)),
        num_shells    |-> PyInt(Cardinality({k \in 1..Len(ub.unique) : ub.unique[k] > 0})),
        bvals         |-> Arr(bv),
        rounded_bvals |-> Arr(rounded),
        bvecs         |-> Arr(bvecArr),
        unique_bvals  |-> Arr(Select(ub.unique, dw)),
        bvals_dirs    |-> Arr(Select(ub.counts, dw)),
        eddy_idxs     |-> Arr(idxs),
        eddy_para     |-> Arr(para),
        unique_pedirs |-> Arr(up.unique),
        counts_pedirs |-> Arr(up.counts),
        shape         |-> PyTuple("int", shp),
        vox_sizes     |-> Arr("zooms"),
        file_epi      |-> Image(efile)]

----------------------------------------------------------------------------
(* The run: exceptions, files, command line *)

Fail(type, names) ==
    /\ pc' = "failed"
    /\ exc' = [type |-> type, names |-> names]

\* the attributes argparse sets on args (lines 56-67)
ArgsAttrs == {"eddydir", "eddybase", "idx", "eddy_params", "mask", "bvals",
              "bvecs", "field", "slspec", "output", "overwrite"}

\* raise ValueError(f'...: {args.<attr>}: {exc}') in an except block: the
\* f-string is evaluated first, and reading an attribute args does not have
\* raises AttributeError in place of the ValueError
RaiseFromHandler(attr) ==
    IF attr \in ArgsAttrs
    THEN Fail("ValueError", {attr, "cause"})
    ELSE Fail("AttributeError", {attr})

\* os.path.isfile(p) answers b: the same answer as before if p was probed
Probe(p, b) ==
    /\ p \in DOMAIN exists => b = exists[p]
    /\ exists' = (p :> b) @@ exists

\* _imgfile (lines 28-35): the first of fname, fname.nii, fname.nii.gz that
\* is a file, None when none is (the loop falls through) or fname is empty
ImgExts == <<"", ".nii", ".nii.gz">>

_imgfile(fname, present) ==
    IF fname = None THEN None
    ELSE IF \E k \in 1..Len(ImgExts) : (fname \o ImgExts[k]) \in present
    THEN fname \o ImgExts[CHOOSE k \in 1..Len(ImgExts) :
                             /\ (fname \o ImgExts[k]) \in present
                             /\ \A j \in 1..(k - 1) : (fname \o ImgExts[j]) \notin present]
    ELSE None

\* _eddyfile (lines 25-26); None + ext raises TypeError
_eddyfile(base, ext) == base \o ext

\* slspec = None, and a slspec table as the number of excitations (its rows)
\* and its number of dimensions (line 143)
NoSlspec == [n_ex |-> 0, ndim |-> 0]

\* s2v_params before line 229 binds it; afterwards the number of rows read
NotRead == [rows |-> 0]

\* the warning of line 245
S2VWarning == "number of s2v parameters does not match"

Absent == [state |-> "absent"]

Init ==
    /\ pc = "start"
    /\ exc = NoExc
    /\ log = {}
    /\ exists = <<>>
    /\ args = <<>>
    /\ eddybase = None
    /\ eddyfile = None
    /\ rawPara = <<>>
    /\ rawIdxs = <<>>
    /\ eddyIdxs = <<>>
    /\ bvals = <<>>
    /\ mask = None
    /\ eddyPara = <<>>
    /\ bvecs = None
    /\ field = None
    /\ shape = <<>>
    /\ data = <<>>
    /\ qc_data = <<>>
    /\ motion = <<>>
    /\ slspec = NoSlspec
    /\ s2v_params = NotRead
    /\ qcjson = Absent

\* lines 83-90: eddyfile is the last name tried when no base image is found,
\* so "not eddyfile" never holds
BaseImageDirs == {{}, {"base.nii.gz"}}

\* lines 70-90: the EDDY directory; the base name, given or taken from a file
\* of the directory that ends with .eddy_parameters; the base image.
\* _eddyfile (line 26) adds a string to args.eddybase, which is None when the
\* name was neither given nor found
LocateRun ==
    /\ pc = "start"
    /\ \E isdir \in BOOLEAN, given \in BOOLEAN, b \in BOOLEAN, present \in BaseImageDirs :
        IF ~isdir
        THEN /\ Fail("ValueError", {"eddydir"})
             /\ given /\ b /\ present = {}
             /\ UNCHANGED <<exists, eddybase, eddyfile>>
        ELSE LET found == IF given THEN exists
                          ELSE ("base.eddy_parameters" :> b) @@ exists
                 base  == IF given \/ b THEN "base" ELSE None
             IN  /\ eddybase' = base
                 /\ (given => b)
                 /\ IF base = None
                    THEN /\ Fail("TypeError", {"eddybase"})
                         /\ present = {}
                         /\ exists' = found
                         /\ UNCHANGED eddyfile
                    ELSE /\ exists' = [q \in {_eddyfile(base, ".nii"),
                                              _eddyfile(base, ".nii.gz")} |-> q \in present]
                                      @@ found
                         /\ eddyfile' = IF _eddyfile(base, ".nii") \in present
                                        THEN _eddyfile(base, ".nii")
                                        ELSE _eddyfile(base, ".nii.gz")
                         /\ IF eddyfile' = None
                            THEN Fail("ValueError", {"eddydir", "eddybase"})
                            ELSE pc' = "idx" /\ UNCHANGED exc
    /\ UNCHANGED <<log, args, rawPara, rawIdxs, eddyIdxs, bvals, mask, eddyPara, bvecs, field, shape, data, qc_data, motion, slspec, s2v_params, qcjson>>

\* np.genfromtxt reads f when ok, and raises when not

\* lines 92-96
IdxFiles == SeqsUpTo(1..MaxRows, 1, MaxVols)

LoadIdxOf(ok, f) ==
    /\ pc = "idx"
    /\ IF ~ok
       THEN RaiseFromHandler("idx") /\ UNCHANGED <<rawIdxs, eddyIdxs>>
       ELSE rawIdxs' = f /\ eddyIdxs' = f /\ pc' = "bvals" /\ UNCHANGED exc
    /\ UNCHANGED <<log, args, exists, eddybase, eddyfile, rawPara, bvals, mask, eddyPara, bvecs, field, shape, data, qc_data, motion, slspec, s2v_params, qcjson>>

LoadIdx ==
    \E ok \in BOOLEAN, f \in IdxFiles :
        (~ok => f = <<1>>) /\ LoadIdxOf(ok, f)

\* lines 98-102
BvalFiles == SeqsUpTo(BValSet, 1, MaxVols)

LoadBvalsOf(ok, f) ==
    /\ pc = "bvals"
    /\ IF ~ok
       THEN RaiseFromHandler("bvals") /\ UNCHANGED bvals
       ELSE bvals' = f /\ pc' = "mask" /\ UNCHANGED exc
    /\ UNCHANGED <<log, args, exists, eddybase, eddyfile, rawPara, rawIdxs, eddyIdxs,
                   mask, eddyPara, bvecs, field, shape, data, qc_data,
                   motion, slspec, s2v_params, qcjson>>

LoadBvals ==
    \E ok \in BOOLEAN, f \in BvalFiles :
        (~ok => f = <<0>>) /\ LoadBvalsOf(ok, f)

\* lines 104-107: the directories that hold no mask, or the mask under one
\* of the three names _imgfile tries
MaskDirs == {{}, {"mask.nii.gz"}}

FindMask ==
    /\ pc = "mask"
    /\ \E present \in MaskDirs :
        /\ mask' = _imgfile("mask", present)
        /\ exists' = [q \in {"mask" \o ImgExts[k] : k \in 1..Len(ImgExts)} |->
                         q \in present] @@ exists
        /\ IF mask' = None
           THEN Fail("ValueError", {"mask"})
           ELSE pc' = "para" /\ UNCHANGED exc
    /\ UNCHANGED <<log, args, eddybase, eddyfile, rawPara, rawIdxs, eddyIdxs, bvals, eddyPara, bvecs, field, shape, data, qc_data, motion, slspec, s2v_params, qcjson>>

\* lines 109-120: the acquisition parameters; any exception of the block
\* (the read, the remap of line 116) goes to the handler of line 119, whose
\* message reads args.params
ParaFiles == SeqsUpTo(ParaRows, 1, MaxRows)

LoadParaOf(ok, f) ==
    /\ pc = "para"
    /\ IF ~ok
       THEN RaiseFromHandler("params") /\ UNCHANGED <<rawPara, eddyIdxs, eddyPara>>
       ELSE /\ rawPara' = f
            /\ IF NdimOfTable(Len(f), RowWidth) > 1
               THEN IF RemapOK(f, eddyIdxs)
                    THEN /\ eddyIdxs' = RemapIdxs(f, eddyIdxs)
                         /\ eddyPara' = Flatten(DedupTable(f))
                         /\ pc' = "bvecs"
                         /\ UNCHANGED exc
                    ELSE RaiseFromHandler("params")
                         /\ UNCHANGED <<eddyIdxs, eddyPara>>
               ELSE /\ eddyPara' = Flatten(f)
                    /\ pc' = "bvecs"
                    /\ UNCHANGED <<exc, eddyIdxs>>
    /\ UNCHANGED <<log, args, exists, eddybase, eddyfile, rawIdxs, bvals, mask,
                   bvecs, field, shape, data, qc_data, motion, slspec, s2v_params, qcjson>>

LoadPara ==
    \E ok \in BOOLEAN, f \in ParaFiles :
        (~ok => f = <<<<0, 1, 0, 2>>>>) /\ LoadParaOf(ok, f)

\* np.max(arr.shape) of lines 156 and 158: a file of one number is 0-D, its
\* shape is () and np.max raises ValueError
MaxShapeOK(arr) == Len(arr) >= 2

\* lines 123-132: bvecs, when --bvecs is given
LoadBvecs ==
    /\ pc = "bvecs"
    /\ \E given \in BOOLEAN, cols \in {Len(bvals), Len(bvals) + 1, -1} :
        IF ~given
        THEN /\ cols = -1
             /\ bvecs' = "bvecs" /\ pc' = "field" /\ UNCHANGED exc
        ELSE IF cols = -1
        THEN RaiseFromHandler("bvecs") /\ UNCHANGED bvecs
        ELSE IF cols # Len(bvals)
        THEN Fail("ValueError", {"bvecs", "bvals"}) /\ UNCHANGED bvecs
        ELSE bvecs' = "bvecs" /\ pc' = "field" /\ UNCHANGED exc
    /\ UNCHANGED <<log, args, exists, eddybase, eddyfile, rawPara, rawIdxs, eddyIdxs,
                   bvals, mask, eddyPara, field, shape, data, qc_data,
                   motion, slspec, s2v_params, qcjson>>

\* lines 134-137: field is None when --field is not given, and also when
\* none of the names _imgfile tries is a file
FieldDirs == {{}, {"field.nii.gz"}}

ResolveField ==
    /\ pc = "field"
    /\ \E given \in {None, "field"}, present \in FieldDirs :
        /\ args' = ("field" :> given) @@ args
        /\ IF given # None
           THEN /\ field' = _imgfile(given, present)
                /\ exists' = [q \in {given \o ImgExts[k] : k \in 1..Len(ImgExts)} |->
                                 q \in present] @@ exists
           ELSE /\ present = {}
                /\ field' = None
                /\ UNCHANGED exists
    /\ pc' = "slspec"
    /\ UNCHANGED <<exc, log, eddybase, eddyfile, rawPara, rawIdxs, eddyIdxs, bvals,
                   mask, eddyPara, bvecs, shape, data, qc_data, motion, slspec, s2v_params, qcjson>>

\* lines 139-145: slspec, when --slspec is given.  The table is read here
\* and used by the slice-to-volume extractor alone: here the read succeeds
\* or raises, and the table is drawn where it is used.
LoadSlspec ==
    /\ pc = "slspec"
    /\ \E given \in BOOLEAN, ok \in BOOLEAN :
        /\ ~given => ok
        /\ args' = ("slspec" :> given) @@ args
        /\ IF given /\ ~ok
           THEN RaiseFromHandler("slspec")
           ELSE pc' = "output" /\ UNCHANGED exc
    /\ UNCHANGED <<log, exists, eddybase, eddyfile, rawPara, rawIdxs,
                   eddyIdxs, bvals, mask, eddyPara, bvecs, field, shape, data,
                   qc_data, motion, slspec, s2v_params, qcjson>>

\* lines 147-152: the output directory
OutputDir ==
    /\ pc = "output"
    /\ \E dirExists \in BOOLEAN, overwrite \in BOOLEAN :
        /\ IF dirExists /\ ~overwrite
           THEN Fail("ValueError", {"output"})
           ELSE pc' = "epi" /\ UNCHANGED exc
    /\ UNCHANGED <<log, args, exists, eddybase, eddyfile, rawPara, rawIdxs,
                   eddyIdxs, bvals, mask, eddyPara, bvecs, field, shape,
                   data, qc_data, motion, slspec, s2v_params, qcjson>>

\* the numbers of slices of the base images of the model
SliceCounts == {2}

\* lines 154-165: the base image and the mask image.  nib.load raises
\* FileNotFoundError for the name lines 83-87 ended with when it is no file.
LoadImages ==
    /\ pc = "epi"
    /\ IF ~exists[eddyfile]
       THEN Fail("FileNotFoundError", {eddyfile}) /\ UNCHANGED shape
       ELSE \E nvols \in 1..MaxVols, nslices \in SliceCounts, maskFits \in BOOLEAN :
            /\ shape' = <<nslices, nvols>>
            /\ IF ~MaxShapeOK(bvals)
               THEN Fail("ValueError", {"np.max"})
               ELSE IF nvols # Len(bvals)
               THEN Fail("ValueError", {"bvals", eddyfile})
               ELSE IF ~MaxShapeOK(eddyIdxs)
               THEN Fail("ValueError", {"np.max"})
               ELSE IF nvols # Len(eddyIdxs)
               THEN Fail("ValueError", {"idx", eddyfile})
               ELSE IF ~maskFits
               THEN Fail("ValueError", {"mask"})
               ELSE pc' = "data" /\ UNCHANGED exc
    /\ UNCHANGED <<log, args, exists, eddybase, eddyfile, rawPara, rawIdxs,
                   eddyIdxs, bvals, mask, eddyPara, bvecs, field, data,
                   qc_data, motion, slspec, s2v_params, qcjson>>

\* lines 170-204: the data dictionary, and the empty qc_data
InferProtocol ==
    /\ pc = "data"
    /\ data' = BuildData(eddyfile, mask, bvals, bvecs, eddyIdxs, eddyPara, shape)
    /\ qc_data' = <<>>
    /\ pc' = "motion"
    /\ UNCHANGED <<exc, log, args, exists, eddybase, eddyfile, rawPara, rawIdxs,
                   eddyIdxs, bvals, mask, eddyPara, bvecs, field, shape,
                   motion, slspec, s2v_params, qcjson>>

----------------------------------------------------------------------------
(* float64.  The numbers of .eddy_movement_rms are read as float64
   (np.genfromtxt(..., dtype=float), line 214) and np.mean (lines 217-218)
   adds and divides them in float64.  A positive float64 is modelled by its
   significand of Precision bits, first bit 1 and most significant bit
   first, and the exponent of its last bit; every operation rounds its
   exact result to the nearest float64, ties to even.  The numbers of the
   model are far from overflow and underflow. *)

Precision == 53

FZero == [m |-> <<>>, e |-> 0]

Zeros(n) == [i \in 1..n |-> 0]

StripZeros(bits) ==
    IF \A i \in 1..Len(bits) : bits[i] = 0 THEN <<>>
    ELSE SubSeq(bits,
                CHOOSE i \in 1..Len(bits) :
                    bits[i] = 1 /\ \A j \in 1..(i - 1) : bits[j] = 0,
                Len(bits))

\* a + b and a + b + 1 for bit strings of the same length: the bits s0, s1
\* of the two sums and the carries c0, c1 out of their first bit.  The carry
\* of the low half selects the sum of the high half.
RECURSIVE AddBoth(_, _)
AddBoth(a, b) ==
    IF Len(a) = 0 THEN [s0 |-> <<>>, c0 |-> 0, s1 |-> <<>>, c1 |-> 1]
    ELSE IF Len(a) = 1
    THEN [s0 |-> <<(a[1] + b[1]) % 2>>,     c0 |-> (a[1] + b[1]) \div 2,
          s1 |-> <<(a[1] + b[1] + 1) % 2>>, c1 |-> (a[1] + b[1] + 1) \div 2]
    ELSE LET h  == Len(a) \div 2
             lo == AddBoth(SubSeq(a, h + 1, Len(a)), SubSeq(b, h + 1, Len(b)))
             hi == AddBoth(SubSeq(a, 1, h), SubSeq(b, 1, h))
         IN [s0 |-> (IF lo.c0 = 0 THEN hi.s0 ELSE hi.s1) \o lo.s0,
             c0 |-> IF lo.c0 = 0 THEN hi.c0 ELSE hi.c1,
             s1 |-> (IF lo.c1 = 0 THEN hi.s0 ELSE hi.s1) \o lo.s1,
             c1 |-> IF lo.c1 = 0 THEN hi.c0 ELSE hi.c1]

\* the sum of two bit strings of the same length: one bit longer
BitsAdd(a, b) ==
    LET sum == AddBoth(a, b) IN <<sum.c0>> \o sum.s0

\* bits * 2^e (first bit 1) rounded to a float64
RoundBits(bits, e) ==
    LET n == Len(bits)
    IN IF n <= Precision
       THEN [m |-> bits \o Zeros(Precision - n), e |-> e - (Precision - n)]
       ELSE LET kept   == SubSeq(bits, 1, Precision)
                guard  == bits[Precision + 1]
                sticky == \E i \in (Precision + 2)..n : bits[i] = 1
                up     == guard = 1 /\ (sticky \/ kept[Precision] = 1)
                inc    == BitsAdd(kept, Zeros(Precision - 1) \o <<1>>)
                e1     == e + (n - Precision)
            IN IF ~up THEN [m |-> kept, e |-> e1]
               ELSE IF inc[1] = 1
               THEN [m |-> SubSeq(inc, 1, Precision), e |-> e1 + 1]
               ELSE [m |-> Tail(inc), e |-> e1]

\* x + y
FAdd(x, y) ==
    IF x = FZero THEN y
    ELSE IF y = FZero THEN x
    ELSE LET e  == IF x.e < y.e THEN x.e ELSE y.e
             xa == x.m \o Zeros(x.e - e)
             ya == y.m \o Zeros(y.e - e)
             n  == IF Len(xa) > Len(ya) THEN Len(xa) ELSE Len(ya)
             s  == BitsAdd(Zeros(n - Len(xa)) \o xa, Zeros(n - Len(ya)) \o ya)
         IN RoundBits(StripZeros(s), e)

\* long division by n > 0 of the bits that follow a remainder rem: the bits
\* q of the quotient and the remainder r; the first half is divided first
\* and its remainder goes into the second half
RECURSIVE LongDiv(_, _, _)
LongDiv(bits, n, rem) ==
    IF Len(bits) = 0 THEN [q |-> <<>>, r |-> rem]
    ELSE IF Len(bits) = 1
    THEN [q |-> <<(2 * rem + bits[1]) \div n>>, r |-> (2 * rem + bits[1]) % n]
    ELSE LET h  == Len(bits) \div 2
             hi == LongDiv(SubSeq(bits, 1, h), n, rem)
             lo == LongDiv(SubSeq(bits, h + 1, Len(bits)), n, hi.r)
         IN [q |-> hi.q \o lo.q, r |-> lo.r]

\* x / n for an integer n > 0; a remainder counts as one more bit
FDivInt(x, n) ==
    IF x = FZero THEN FZero
    ELSE LET d == LongDiv(x.m \o Zeros(2 * Precision), n, 0)
             q == d.q \o <<IF d.r = 0 THEN 0 ELSE 1>>
         IN RoundBits(StripZeros(q), x.e - 2 * Precision - 1)

RECURSIVE IntBits(_)
IntBits(n) == IF n = 0 THEN <<>> ELSE IntBits(n \div 2) \o <<n % 2>>

\* the float64 nearest to n / d: what reading the decimal text of n / d gives
Float64(n, d) ==
    IF n = 0 THEN FZero ELSE FDivInt(RoundBits(IntBits(n), 0), d)

\* the float64 next above and next below a positive x
FSucc(x) ==
    LET inc == BitsAdd(x.m, Zeros(Precision - 1) \o <<1>>)
    IN IF inc[1] = 1 THEN [m |-> SubSeq(inc, 1, Precision), e |-> x.e + 1]
       ELSE [m |-> Tail(inc), e |-> x.e]

FPred(x) ==
    LET last == CHOOSE j \in 1..Precision :
                    x.m[j] = 1 /\ \A i \in (j + 1)..Precision : x.m[i] = 0
        dec  == [i \in 1..Precision |->
                    IF i < last THEN x.m[i] ELSE IF i = last THEN 0 ELSE 1]
    IN IF dec[1] = 1 THEN [m |-> dec, e |-> x.e]
       ELSE [m |-> Tail(dec) \o <<1>>, e |-> x.e - 1]

\* the float64 numbers at most k steps above or below x
RECURSIVE FNear(_, _)
FNear(x, k) ==
    IF k = 0 THEN {x}
    ELSE LET near == FNear(x, k - 1)
         IN near \cup {FSucc(y) : y \in near} \cup {FPred(y) : y \in near}

\* np.add.reduce of fewer than PairwiseFrom numbers adds them one by one,
\* from the first to the last; of PairwiseFrom numbers or more (and at most
\* 128) it keeps PairwiseFrom running sums, adds them in pairs and then adds
\* the numbers left over
PairwiseFrom == 8

RECURSIVE FSumFrom(_, _)
FSumFrom(s, acc) ==
    IF s = <<>> THEN acc ELSE FSumFrom(Tail(s), FAdd(acc, Head(s)))

FSum(s) ==
    IF Len(s) < PairwiseFrom THEN FSumFrom(s, FZero)
    ELSE LET blocks == Len(s) \div PairwiseFrom
             r == [j \in 1..PairwiseFrom |->
                     FSumFrom([b \in 1..blocks |-> s[(b - 1) * PairwiseFrom + j]],
                              FZero)]
             res == FAdd(FAdd(FAdd(r[1], r[2]), FAdd(r[3], r[4])),
                         FAdd(FAdd(r[5], r[6]), FAdd(r[7], r[8])))
         IN FSumFrom(SubSeq(s, blocks * PairwiseFrom + 1, Len(s)), res)

----------------------------------------------------------------------------
(* Metric Extractors: extract.py lines 205-307 *)

\* qc_data[k] = v for the keys of more
Put(dict, more) == more @@ dict

\* dict.pop(k)
Pop(dict, k) == [q \in (DOMAIN dict) \ {k} |-> dict[q]]

Column(table, c) == [i \in 1..Len(table) |-> table[i][c]]

\* np.mean: the sum divided by the number of items
Mean(s) == FDivInt(FSum(s), Len(s))

\* lines 212-218: the rows of .eddy_movement_rms are [absolute, relative]
MotionRows == {<<Float64(1, 10), Float64(2, 10)>>,
               <<Float64(3, 10), Float64(1, 10)>>}

\* the files of the model: any number of rows, all rows after the first equal
MotionFiles ==
    {[i \in 1..n |-> IF i = 1 THEN first ELSE rest] :
        n \in 0..(MaxVols + 1), first \in MotionRows, rest \in MotionRows}

\* the two columns taken for each other
MotionQC_Swapped(m) ==
    [motion_abs      |-> Arr(Column(m, 2)),
     motion_rel      |-> Arr(Column(m, 1)),
     motion_abs_mean |-> F64(Mean(Column(m, 2))),
     motion_rel_mean |-> F64(Mean(Column(m, 1)))]

MotionQC(m) ==
    [motion_abs      |-> Arr(Column(m, 1)),
     motion_rel      |-> Arr(Column(m, 2)),
     motion_abs_mean |-> F64(Mean(Column(m, 1))),
     motion_rel_mean |-> F64(Mean(Column(m, 2)))]

\* MotionQC of every file of the model that has the two dimensions
\* motion[:, 0] needs
MotionQCOf ==
    [m \in {f \in MotionFiles : NdimOfTable(Len(f), 2) >= 2} |-> MotionQC(m)]

\* lines 212-218: no check of the number of rows against the volumes
Motion ==
    /\ pc = "motion"
    /\ \E b \in BOOLEAN, m \in MotionFiles :
        /\ Probe(_eddyfile(eddybase, ".eddy_movement_rms"), b)
        /\ IF ~b
           THEN /\ m = <<>>
                /\ pc' = "params" /\ UNCHANGED <<exc, qc_data, motion>>
           ELSE /\ motion' = m
                /\ IF NdimOfTable(Len(m), 2) < 2
                   THEN Fail("IndexError", {"motion[:, 0]"}) /\ UNCHANGED qc_data
                   ELSE /\ qc_data' = Put(qc_data, MotionQCOf[m])
                        /\ pc' = "params" /\ UNCHANGED exc
    /\ UNCHANGED <<log, args, eddybase, eddyfile, rawPara, rawIdxs, eddyIdxs,
                   bvals, mask, eddyPara, bvecs, field, shape, data,
                   slspec, s2v_params, qcjson>>

\* lines 220-225: the statistics of the 9 columns of .eddy_parameters; the
\* numbers of that table are not modelled, the statistics are named
ParamsQC ==
    [motion_v2v_trans_mean |-> Arr("mean(params[:,0:3])"),
     motion_v2v_rot_mean   |-> Arr("mean(rad2deg(params[:,3:6]))"),
     motion_ec_lin_std     |-> Arr("std(params[:,6:9])")]

Params ==
    /\ pc = "params"
    /\ \E b \in BOOLEAN, nrows \in 1..MaxVols :
        /\ Probe(_eddyfile(eddybase, ".eddy_parameters"), b)
        /\ IF ~b
           THEN /\ nrows = 1
                /\ pc' = "s2v" /\ UNCHANGED <<exc, qc_data>>
           ELSE IF NdimOfTable(nrows, 9) < 2
           THEN Fail("IndexError", {"params[:,0:3]"}) /\ UNCHANGED qc_data
           ELSE /\ qc_data' = Put(qc_data, ParamsQC)
                /\ pc' = "s2v" /\ UNCHANGED exc
    /\ UNCHANGED <<log, args, eddybase, eddyfile, rawPara, rawIdxs, eddyIdxs,
                   bvals, mask, eddyPara, bvecs, field, shape, data,
                   motion, slspec, s2v_params, qcjson>>

\* lines 227-256: slice-to-volume motion.  The statistics are named, the
\* number of rows of .eddy_movement_over_time is modelled.
MaskPaths == {"mask" \o ImgExts[k] : k \in 1..Len(ImgExts)}

S2VSeries(nrows) ==
    [motion_s2v_trans |-> Arr([rows |-> nrows, what |-> "s2v_params[:,0:3]"]),
     motion_s2v_rot   |-> Arr([rows |-> nrows, what |-> "rad2deg(s2v_params[:,3:6])"])]

S2VVariances(nvols) ==
    [motion_s2v_trans_var      |-> Arr([rows |-> nvols, what |-> "var(trans, ddof=1)"]),
     motion_s2v_rot_var        |-> Arr([rows |-> nvols, what |-> "var(rot, ddof=1)"]),
     motion_s2v_trans_std_mean |-> Arr("sqrt(mean(trans_var))"),
     motion_s2v_rot_std_mean   |-> Arr("sqrt(mean(rot_var))")]

S2VKeys ==
    {"motion_s2v_trans", "motion_s2v_rot", "motion_s2v_trans_var",
     "motion_s2v_rot_var", "motion_s2v_trans_std_mean", "motion_s2v_rot_std_mean"}

SlspecTables == {[n_ex |-> 2, ndim |-> 1], [n_ex |-> 2, ndim |-> 2]}

\* lines 233-242: the number of excitations
NumExcitations(sl, shp) == IF sl # NoSlspec THEN sl.n_ex ELSE shp[1]

\* The table of --slspec is used by this extractor alone, and only when the
\* s2v file is there: it is drawn here, where it is used.
S2V ==
    /\ pc = "s2v"
    /\ \E b \in BOOLEAN, extra \in {0, 1}, sl \in SlspecTables \cup {NoSlspec} :
        /\ Probe(_eddyfile(eddybase, ".eddy_movement_over_time"), b)
        /\ IF ~b
           THEN /\ extra = 0 /\ sl = NoSlspec
                /\ pc' = "outliers"
                /\ UNCHANGED <<exc, log, qc_data, slspec, s2v_params>>
           ELSE LET n_ex  == NumExcitations(sl, shape)
                    nrows == n_ex * Len(data.bvals.v) + extra
                    qc1   == Put(qc_data, S2VSeries(nrows))
                IN
                /\ (sl = NoSlspec) <=> ~args.slspec
                /\ slspec' = sl
                /\ s2v_params' = [rows |-> nrows]
                /\ IF NdimOfTable(nrows, 6) < 2
                   THEN Fail("IndexError", {"s2v_params[:,0:3]"})
                        /\ UNCHANGED <<log, qc_data>>
                   ELSE IF sl # NoSlspec /\ sl.ndim = 1
                           /\ data.file_mask.t = "str"
                   \* line 238 indexes data['file_mask'], the path of the mask
                   THEN Fail("TypeError", {"data['file_mask'][:,:,slspec]"})
                        /\ qc_data' = qc1 /\ UNCHANGED log
                   ELSE LET log1 == IF sl = NoSlspec
                                    THEN log \cup {"slspec file not provided"}
                                    ELSE log
                        IN
                        \* line 244 reads qc_data['s2v_params']
                        IF "s2v_params" \notin DOMAIN qc1
                        THEN Fail("KeyError", {"s2v_params"})
                             /\ qc_data' = qc1 /\ log' = log1
                        ELSE IF n_ex * Len(data.bvals.v) # qc1["s2v_params"].v.rows
                        THEN /\ log' = log1 \cup {S2VWarning}
                             /\ qc_data' = Pop(Pop(qc1, "motion_s2v_trans"), "motion_s2v_rot")
                             /\ pc' = "outliers" /\ UNCHANGED exc
                        ELSE /\ log' = log1
                             /\ qc_data' = Put(qc1, S2VVariances(Len(data.bvals.v)))
                             /\ pc' = "outliers" /\ UNCHANGED exc
    /\ UNCHANGED <<args, eddybase, eddyfile, rawPara, rawIdxs, eddyIdxs, bvals,
                   mask, eddyPara, bvecs, field, shape, data, motion, qcjson>>

\* lines 258-268: outlier percentages.  ol_map has one row per volume and
\* one column per slice.
\* The maps of the model: in each volume no slice or every slice is an
\* outlier.
OlRows(ncols) == {[c \in 1..ncols |-> 0], [c \in 1..ncols |-> 1]}

OlMaps(nrows, ncols) == [1..nrows -> OlRows(ncols)]

\* np.count_nonzero(ol_map[keep, :])
CountNonzero(ol_map, keep) ==
    Cardinality({rc \in (DOMAIN ol_map) \X (1..Len(ol_map[1])) :
                    keep[rc[1]] /\ ol_map[rc[1]][rc[2]] # 0})

Percent(count, total) == Rat(100 * count, total)

OutliersTot(ol_map, d) ==
    Percent(CountNonzero(ol_map, [v \in DOMAIN ol_map |-> TRUE]),
            d.num_dw_vols.v * d.shape.v[1])

OutliersTotBval(ol_map, d) ==
    [i \in 1..Len(d.unique_bvals.v) |->
        Percent(CountNonzero(ol_map, [v \in DOMAIN ol_map |->
                                         d.bvals.v[v] = d.unique_bvals.v[i]]),
                d.bvals_dirs.v[i] * d.shape.v[1])]

OutliersTotPe(ol_map, d) ==
    [i \in 1..d.num_pe_dirs.v |->
        Percent(CountNonzero(ol_map, [v \in DOMAIN ol_map |->
                                         d.eddy_idxs.v[v] = d.unique_pedirs.v[i]]),
                d.counts_pedirs.v[i] * d.shape.v[1])]

OutliersQC(ol_map, d) ==
    [outliers_tot      |-> PyFloat(OutliersTot(ol_map, d)),
     outliers_tot_bval |-> Arr(OutliersTotBval(ol_map, d)),
     outliers_tot_pe   |-> Arr(OutliersTotPe(ol_map, d))]

Outliers ==
    /\ pc = "outliers"
    /\ \E b \in BOOLEAN, std \in BOOLEAN, nrows \in 1..MaxVols :
        /\ Probe(_eddyfile(eddybase, ".eddy_outlier_map"), b)
        /\ IF ~b
           THEN /\ nrows = 1 /\ ~std
                /\ pc' = "cnr" /\ UNCHANGED <<exc, qc_data>>
           ELSE \E ol_map \in OlMaps(nrows, shape[1]) :
                IF ~std
                THEN Fail("OSError", {".eddy_outlier_n_stdev_map"})
                     /\ UNCHANGED qc_data
                ELSE IF data.num_dw_vols.v * shape[1] = 0
                THEN Fail("ZeroDivisionError", {"outliers_tot"})
                     /\ UNCHANGED qc_data
                ELSE IF NdimOfTable(nrows, shape[1]) < 2
                        \/ nrows # Len(data.bvals.v)
                THEN Fail("IndexError", {"ol_map"}) /\ UNCHANGED qc_data
                ELSE /\ qc_data' = Put(qc_data, OutliersQC(ol_map, data))
                     /\ pc' = "cnr" /\ UNCHANGED exc
    /\ UNCHANGED <<log, args, eddybase, eddyfile, rawPara, rawIdxs, eddyIdxs,
                   bvals, mask, eddyPara, bvecs, field, shape, data,
                   motion, slspec, s2v_params, qcjson>>

\* lines 270-284: contrast to noise, channel 0 and one channel per shell.
\* The voxels are not modelled, the statistics are named; the warning about
\* NaNs (line 275) changes nothing else and is left out.
CnrQC(nshells) ==
    [cnr_mean_bval |-> Arr([k \in 1..(1 + nshells) |-> "round(nanmean(cnr), 2)"]),
     cnr_std_bval  |-> Arr([k \in 1..(1 + nshells) |-> "round(nanstd(cnr), 2)"])]

Cnr ==
    /\ pc = "cnr"
    /\ \E b \in BOOLEAN, short \in BOOLEAN :
        /\ Probe(_eddyfile(eddybase, ".eddy_cnr_maps.nii.gz"), b)
        /\ IF ~b
           THEN /\ ~short
                /\ pc' = "residuals" /\ UNCHANGED <<exc, qc_data>>
           ELSE LET nshells  == Len(data.unique_bvals.v)
                    channels == IF short THEN nshells ELSE 1 + nshells
                IN
                IF channels < 1 + nshells
                THEN Fail("IndexError", {"cnr"}) /\ UNCHANGED qc_data
                ELSE /\ qc_data' = Put(qc_data, CnrQC(nshells))
                     /\ pc' = "residuals" /\ UNCHANGED exc
    /\ UNCHANGED <<log, args, eddybase, eddyfile, rawPara, rawIdxs, eddyIdxs, bvals,
                   mask, eddyPara, bvecs, field, shape, data, motion, slspec, s2v_params, qcjson>>

\* line 290: np.full(data['bvals'].size, -1.0), -- the trailing comma makes
\* the value a tuple that holds the array
ResMeanInit(nvols) == PyTuple("ndarray", <<Arr([i \in 1..nvols |-> -1])>>)

\* line 292: qc_data['res_mean'][i] = ...; a tuple has no item assignment
SetItemOK(target) == target.t = "ndarray"

Residuals ==
    /\ pc = "residuals"
    /\ \E b \in BOOLEAN, missing \in {0, 1} :
        /\ Probe(_eddyfile(eddybase, ".eddy_residuals.nii.gz"), b)
        /\ IF ~b
           THEN /\ missing = 0
                /\ pc' = "fielddisp" /\ UNCHANGED <<exc, qc_data>>
           ELSE LET nvols    == Len(data.bvals.v)
                    channels == nvols - missing
                    res_mean == ResMeanInit(nvols)
                IN
                /\ qc_data' = Put(qc_data, [res_mean |-> res_mean])
                /\ IF nvols = 0
                   THEN pc' = "fielddisp" /\ UNCHANGED exc
                   ELSE IF channels < 1
                   THEN Fail("IndexError", {"rss[:,:,:,i]"})
                   ELSE IF ~SetItemOK(res_mean)
                   THEN Fail("TypeError", {"qc_data['res_mean'][i]"})
                   ELSE IF channels < nvols
                   THEN Fail("IndexError", {"rss[:,:,:,i]"})
                   ELSE pc' = "fielddisp" /\ UNCHANGED exc
    /\ UNCHANGED <<log, args, eddybase, eddyfile, rawPara, rawIdxs, eddyIdxs,
                   bvals, mask, eddyPara, bvecs, field, shape, data,
                   motion, slspec, s2v_params, qcjson>>

\* lines 298-307: the field map.  np.std of a float32 image is an np.float32;
\* the image stays float32 when multiplied by the scalar eddyPara[3].
FieldDtypes == {"float32", "float64"}

FieldQC(dtype) ==
    [field_disp_std |-> [t |-> dtype, v |-> "std(fieldMap*eddyPara[3])"]]

FieldDisp ==
    /\ pc = "fielddisp"
    /\ IF field # None
       THEN IF ~exists[field]
            THEN Fail("ValueError", {field}) /\ UNCHANGED qc_data
            ELSE \E dtype \in FieldDtypes :
                 /\ qc_data' = Put(qc_data, FieldQC(dtype))
                 /\ pc' = "write" /\ UNCHANGED exc
       ELSE pc' = "write" /\ UNCHANGED <<exc, qc_data>>
    /\ UNCHANGED <<log, args, exists, eddybase, eddyfile, rawPara, rawIdxs,
                   eddyIdxs, bvals, mask, eddyPara, bvecs, field, shape,
                   data, motion, slspec, s2v_params, qcjson>>

----------------------------------------------------------------------------
(* Record Assembler: extract.py lines 314-329 *)

\* lines 317-320 and 322-325: an array becomes a list, anything else is kept
ToRecordValue(x) == IF x.t = "ndarray" THEN PyList(x.v) ELSE x

\* the keys that data and qc_data can hold
DataKeys ==
    {"subjid", "file_mask", "num_dw_vols", "num_b0_vols", "protocol",
     "num_pe_dirs", "num_shells", "bvals", "rounded_bvals", "bvecs",
     "unique_bvals", "bvals_dirs", "eddy_idxs", "eddy_para", "unique_pedirs",
     "counts_pedirs", "shape", "vox_sizes", "file_epi"}

MotionKeys == {"motion_abs", "motion_rel", "motion_abs_mean", "motion_rel_mean"}
ParamsKeys == {"motion_v2v_trans_mean", "motion_v2v_rot_mean", "motion_ec_lin_std"}
OutliersKeys == {"outliers_tot", "outliers_tot_bval", "outliers_tot_pe"}
CnrKeys == {"cnr_mean_bval", "cnr_std_bval"}
ResidualsKeys == {"res_mean"}
FieldKeys == {"field_disp_std"}

QcKeys ==
    MotionKeys \cup ParamsKeys \cup S2VKeys \cup {"s2v_params"}
    \cup OutliersKeys \cup CnrKeys \cup ResidualsKeys \cup FieldKeys

\* the key of full_data that lines 318-325 make of a key k: 'data_' + k and
\* 'qc_' + k, and its inverse
DataName == [key \in {"data_" \o k : k \in DataKeys} |->
                CHOOSE k \in DataKeys : key = "data_" \o k]

QcName == [key \in {"qc_" \o k : k \in QcKeys} |->
              CHOOSE k \in QcKeys : key = "qc_" \o k]

FullData(d, qc) ==
    LET dkeys == {key \in DOMAIN DataName : DataName[key] \in DOMAIN d}
        qkeys == {key \in DOMAIN QcName : QcName[key] \in DOMAIN qc}
    IN [key \in dkeys \cup qkeys |->
           IF key \in dkeys THEN ToRecordValue(d[DataName[key]])
                            ELSE ToRecordValue(qc[QcName[key]])]

\* what json.dump encodes: str, int, float and its subclass np.float64, and
\* lists and tuples of those
JsonEncodable(x) ==
    \/ x.t \in {"str", "int", "float", "float64", "list"}
    \/ x.t = "tuple" /\ x.of = "int"

\* lines 328-329: open(..., 'w') creates or empties qc.json, then json.dump
\* writes the record piece by piece and raises TypeError at a value it cannot
\* encode
WriteRecord ==
    /\ pc = "write"
    /\ data' = Pop(data, "file_epi")
    /\ LET full_data == FullData(data', qc_data)
       IN IF \A key \in DOMAIN full_data : JsonEncodable(full_data[key])
          THEN /\ qcjson' = [state |-> "complete", record |-> full_data]
               /\ pc' = "done" /\ UNCHANGED exc
          ELSE /\ qcjson' = [state |-> "partial"]
               /\ Fail("TypeError", {"not JSON serializable"})
    /\ UNCHANGED <<log, args, exists, eddybase, eddyfile, rawPara, rawIdxs,
                   eddyIdxs, bvals, mask, eddyPara, bvecs, field, shape,
                   qc_data, motion, slspec, s2v_params>>

----------------------------------------------------------------------------

Next ==
    \/ LocateRun
    \/ LoadIdx
    \/ LoadBvals
    \/ FindMask
    \/ LoadPara
    \/ LoadBvecs
    \/ ResolveField
    \/ LoadSlspec
    \/ OutputDir
    \/ LoadImages
    \/ InferProtocol
    \/ Motion
    \/ Params
    \/ S2V
    \/ Outliers
    \/ Cnr
    \/ Residuals
    \/ FieldDisp
    \/ WriteRecord

Spec == Init /\ [][Next]_vars

----------------------------------------------------------------------------
(* The claims of the specification about the pipeline, checked on Spec *)

\* the record that qc.json holds once it is written
Written == qcjson.state = "complete"

\* C1: when .eddy_movement_over_time is present and its number of rows
\* differs from volumes x excitations, the step does not fail: it warns, goes
\* on to the next extractor, and leaves no motion_s2v_ key behind.
C1_S2VMismatchIsSkipped ==
    [][(/\ pc = "s2v"
        /\ exists'[_eddyfile(eddybase, ".eddy_movement_over_time")]
        /\ s2v_params'.rows # Len(data.bvals.v) * NumExcitations(slspec', shape))
       => (/\ pc' = "outliers"
           /\ S2VWarning \in log'
           /\ DOMAIN qc_data' \cap S2VKeys = {})]_vars

\* the optional artifacts that main() looks for beside the base name, and
\* the qc_data keys the extractor of each makes
ArtifactKeys ==
    [e \in {".eddy_movement_rms", ".eddy_parameters", ".eddy_movement_over_time",
            ".eddy_outlier_map", ".eddy_cnr_maps.nii.gz", ".eddy_residuals.nii.gz"} |->
        CASE e = ".eddy_movement_rms"       -> MotionKeys
          [] e = ".eddy_parameters"         -> ParamsKeys
          [] e = ".eddy_movement_over_time" -> S2VKeys
          [] e = ".eddy_outlier_map"        -> OutliersKeys
          [] e = ".eddy_cnr_maps.nii.gz"    -> CnrKeys
          [] e = ".eddy_residuals.nii.gz"   -> ResidualsKeys]

\* this step looks for the artifact and does not find it
FoundAbsent(e) ==
    /\ _eddyfile("base", e) \notin DOMAIN exists
    /\ _eddyfile("base", e) \in DOMAIN exists'
    /\ ~exists'[_eddyfile("base", e)]

\* C2: a step that finds an optional artifact absent does not fail the run,
\* adds none of the keys of that artifact and leaves the keys of the other
\* artifacts as they are; so does the field step when there is no field map.
C2_AbsentArtifactIsSkipped ==
    [][/\ \A e \in DOMAIN ArtifactKeys :
            FoundAbsent(e) =>
                /\ pc' # "failed"
                /\ DOMAIN qc_data' \cap ArtifactKeys[e] = {}
                /\ qc_data' = qc_data
       /\ (pc = "fielddisp" /\ field = None) =>
                /\ pc' # "failed"
                /\ qc_data' = qc_data]_vars

\* C3: a run that failed has not created qc.json, and a qc.json that exists
\* holds the complete record.
C3_NoRecordOnFailure ==
    /\ pc = "failed" => qcjson = Absent
    /\ qcjson # Absent => Written

\* a percentage n/d, as Rat makes it, between 0 and 100
InPercentRange(x) == 0 <= x[1] /\ x[1] <= 100 * x[2]

\* C6: every outlier percentage of the written record lies in [0, 100].
C6_OutlierPercentInRange ==
    (Written /\ "qc_outliers_tot" \in DOMAIN qcjson.record) =>
        /\ InPercentRange(qcjson.record["qc_outliers_tot"].v)
        /\ \A i \in DOMAIN qcjson.record["qc_outliers_tot_bval"].v :
               InPercentRange(qcjson.record["qc_outliers_tot_bval"].v[i])
        /\ \A i \in DOMAIN qcjson.record["qc_outliers_tot_pe"].v :
               InPercentRange(qcjson.record["qc_outliers_tot_pe"].v[i])

\* --field was given and none of the names tried for it is a file
FieldDeclaredMissing ==
    /\ "field" \in DOMAIN args
    /\ args["field"] # None
    /\ \A k \in 1..Len(ImgExts) : ~exists[args["field"] \o ImgExts[k]]

\* C7: with --field given and the field file missing the run fails and
\* writes no record; without --field the record has no qc_field_disp_std.
C7_FieldGating ==
    /\ FieldDeclaredMissing => (pc # "done" /\ qcjson = Absent)
    /\ ("field" \in DOMAIN args /\ args["field"] = None /\ Written) =>
           "qc_field_disp_std" \notin DOMAIN qcjson.record

\* C8: qc_motion_ values are written only from a motion file that has one
\* row per volume; with any other number of rows the run fails.
C8_MotionRowsMatchVolumes ==
    (Written /\ "qc_motion_abs" \in DOMAIN qcjson.record) =>
        Len(motion) = Len(qcjson.record["data_bvals"].v)

\* the args attribute of each required table, by the step that loads it
RequiredTables == [idx |-> "idx", bvals |-> "bvals", para |-> "eddy_params"]

\* C9: when the load of a required table fails, the run ends with a
\* ValueError that names the path of the table and the cause, and with no
\* other exception.
C9_TableFailureIsValueError ==
    [][(pc \in DOMAIN RequiredTables /\ pc' = "failed") =>
           /\ exc'.type = "ValueError"
           /\ {RequiredTables[pc], "cause"} \subseteq exc'.names]_vars

\* C12: when .eddy_residuals.nii.gz is present for a run of one volume or
\* more, and the step does not stop on a channel the image lacks, the step
\* does not fail: it goes on to the next extractor and leaves in res_mean an
\* array of one value per volume.
C12_ResidualsAreExtracted ==
    [][(/\ pc = "residuals"
        /\ exists'[_eddyfile(eddybase, ".eddy_residuals.nii.gz")]
        /\ Len(data.bvals.v) >= 1
        /\ exc'.type # "IndexError")
       => (/\ pc' = "fielddisp"
           /\ "res_mean" \in DOMAIN qc_data'
           /\ qc_data'.res_mean.t = "ndarray"
           /\ Len(qc_data'.res_mean.v) = Len(data.bvals.v))]_vars

----------------------------------------------------------------------------
(* The Acquisition Normalizer on its own: main() at line 110, with the
   volume index file read, for tables and index files richer than those of
   the whole pipeline *)

NormRows == ParaRows \cup {<<1, 0, 0, 2>>}

NormTables == SeqsUpTo(NormRows, 1, MaxRows + 1)

NormIdxFiles == SeqsUpTo(1..(MaxRows + 1), 1, MaxVols)

\* what the steps before line 110 leave when the base name is given and the
\* base image and the mask are found
FilesFound ==
    [q \in {"base.nii", "base.nii.gz"} \cup MaskPaths |->
        q \in {"base.nii.gz", "mask.nii.gz"}]

InitNorm ==
    /\ pc = "para"
    /\ exc = NoExc
    /\ log = {}
    /\ exists = FilesFound
    /\ args = <<>>
    /\ eddybase = "base"
    /\ eddyfile = "base.nii.gz"
    /\ rawPara = <<>>
    /\ rawIdxs \in NormIdxFiles
    /\ eddyIdxs = rawIdxs
    /\ bvals = [v \in 1..Len(rawIdxs) |-> 1000]
    /\ mask = "mask.nii.gz"
    /\ eddyPara = <<>>
    /\ bvecs = None
    /\ field = None
    /\ shape = <<>>
    /\ data = <<>>
    /\ qc_data = <<>>
    /\ motion = <<>>
    /\ slspec = NoSlspec
    /\ s2v_params = NotRead
    /\ qcjson = Absent

NextNorm == \E f \in NormTables : LoadParaOf(TRUE, f)

SpecNorm == InitNorm /\ [][NextNorm]_vars

\* the index file read points into the table read
IdxsInTable == \A v \in 1..Len(rawIdxs) : rawIdxs[v] \in 1..Len(rawPara)

\* C4: for a table of two rows or more and indices within it, the
\* normalizer does not fail, the rows of its table are pairwise distinct,
\* every remapped index lies within its table, and the row a volume selects
\* after it is the row the volume selected before.
C4_NormalizerKeepsRows ==
    (Len(rawPara) >= 2 /\ IdxsInTable) =>
        /\ pc = "bvecs"
        /\ LET table == Rows(eddyPara)
           IN /\ \A i \in 1..Len(table) : \A j \in 1..Len(table) :
                     i # j => table[i] # table[j]
              /\ Len(eddyIdxs) = Len(rawIdxs)
              /\ \A v \in 1..Len(eddyIdxs) :
                     /\ eddyIdxs[v] \in 1..Len(table)
                     /\ table[eddyIdxs[v]] = rawPara[rawIdxs[v]]

\* a table with a repeated row whose distinct rows are not in sorted order,
\* and indices that the normalizer changes
C4_Witness ==
    /\ pc = "bvecs"
    /\ Len(rawPara) >= 2 /\ IdxsInTable
    /\ \E i \in 1..Len(rawPara) : \E j \in 1..Len(rawPara) :
           i # j /\ rawPara[i] = rawPara[j]
    /\ Len(Rows(eddyPara)) >= 2
    /\ Rows(eddyPara)[1] # rawPara[1]
    /\ eddyIdxs # rawIdxs

\* the distinct rows of a table in the order a scan from its first row to
\* its last meets them
RECURSIVE FirstOccurrences(_)
FirstOccurrences(table) ==
    IF table = <<>> THEN <<>>
    ELSE LET before == FirstOccurrences(SubSeq(table, 1, Len(table) - 1))
             last   == table[Len(table)]
         IN IF last \in Range(before) THEN before ELSE Append(before, last)

\* C11: when the normalizer has run on a table, the k-th row of the table
\* it leaves is the k-th distinct row met when scanning the table read from
\* its first row to its last.
C11_FirstOccurrenceOrder ==
    (pc = "bvecs" /\ rawPara # <<>>) =>
        Rows(eddyPara) = FirstOccurrences(rawPara)

\* C11 as the code has it: when the normalizer has run on a table, the
\* table it leaves holds exactly the distinct rows of the table read, each
\* once, in ascending order of their bytes (the order np.unique sorts
\* np.void items in).
C11_SortedByteOrder ==
    (pc = "bvecs" /\ rawPara # <<>>) =>
        LET table == Rows(eddyPara)
        IN /\ Range(table) = Range(rawPara)
           /\ \A k \in 1..(Len(table) - 1) : RowLess(table[k], table[k + 1])

\* a table of three rows, one of them repeated, whose distinct rows are met
\* in an order that is not the order of their bytes
C11_Witness ==
    /\ pc = "bvecs"
    /\ Len(rawPara) = 3
    /\ Len(Rows(eddyPara)) = 2
    /\ Rows(eddyPara) # FirstOccurrences(rawPara)

----------------------------------------------------------------------------
(* Protocol Inference on its own: main() at line 170, for b-values and
   volume indices richer than those of the whole pipeline *)

ProtoBVals == {0, 995, 1000, 2000}

\* the datasets: two volumes or more, as lines 156-160 require
ProtoDatasets ==
    UNION {[1..n -> ProtoBVals] \X [1..n -> 1..(MaxRows + 1)] :
              n \in 2..(MaxVols + 1)}

\* what the steps before line 170 leave for a dataset <<b-values, volume
\* indices>> whose acquisition-parameter file has one row, when --field and
\* --slspec are not given
InitAtData(dataset) ==
    /\ pc = "data"
    /\ exc = NoExc
    /\ log = {}
    /\ exists = FilesFound
    /\ args = [field |-> None, slspec |-> FALSE]
    /\ eddybase = "base"
    /\ eddyfile = "base.nii.gz"
    /\ rawPara = <<<<0, 1, 0, 2>>>>
    /\ rawIdxs = dataset[2]
    /\ eddyIdxs = dataset[2]
    /\ bvals = dataset[1]
    /\ mask = "mask.nii.gz"
    /\ eddyPara = <<0, 1, 0, 2>>
    /\ bvecs = "bvecs"
    /\ field = None
    /\ shape = <<2, Len(dataset[1])>>
    /\ data = <<>>
    /\ qc_data = <<>>
    /\ motion = <<>>
    /\ slspec = NoSlspec
    /\ s2v_params = NotRead
    /\ qcjson = Absent

InitProto == \E dataset \in ProtoDatasets : InitAtData(dataset)

NextProto == InferProtocol

SpecProto == InitProto /\ [][NextProto]_vars

\* the cell of the flattened protocol for the c_p-th direction and the
\* c_b-th shell
CellAt(d, c_p, c_b) ==
    d.protocol.v[(c_p - 1) * Len(SortInts(Range(d.rounded_bvals.v))) + c_b]

\* C5: the cells of data_protocol add up to the number of volumes, and the
\* cell of a direction and a shell is the number of volumes of that
\* direction and that shell.
C5_ProtocolSumsToVolumes ==
    pc = "motion" =>
        LET shells == SortInts(Range(round_bvals(bvals)))
            dirs   == SortInts(Range(eddyIdxs))
        IN /\ Len(data.protocol.v) = Len(dirs) * Len(shells)
           /\ Sum(data.protocol.v) = Len(bvals)
           /\ \A c_p \in 1..Len(dirs) : \A c_b \in 1..Len(shells) :
                  CellAt(data, c_p, c_b) =
                      Cardinality({v \in 1..Len(bvals) :
                                      /\ RoundBval(bvals[v]) = shells[c_b]
                                      /\ eddyIdxs[v] = dirs[c_p]})

\* two directions and two shells, one of them made by rounding, an empty
\* cell and a cell of more than one volume
C5_Witness ==
    /\ pc = "motion"
    /\ Cardinality(Range(eddyIdxs)) >= 2
    /\ Cardinality(Range(round_bvals(bvals))) >= 2
    /\ round_bvals(bvals) # bvals
    /\ \E k \in 1..Len(data.protocol.v) : data.protocol.v[k] = 0
    /\ \E k \in 1..Len(data.protocol.v) : data.protocol.v[k] >= 2

----------------------------------------------------------------------------
(* The extractors and the assembler on datasets of one encode direction:
   main() at line 170 and on, for one volume more than the whole pipeline
   has *)

E2EDatasets ==
    UNION {[1..n -> BValSet] \X {[v \in 1..n |-> 1]} : n \in 2..(MaxVols + 1)}

InitE2E == \E dataset \in E2EDatasets : InitAtData(dataset)

NextE2E ==
    \/ InferProtocol
    \/ Motion
    \/ Params
    \/ S2V
    \/ Outliers
    \/ Cnr
    \/ Residuals
    \/ FieldDisp
    \/ WriteRecord

SpecE2E == InitE2E /\ [][NextE2E]_vars

\* the record is written for a dataset of one encode direction whose motion
\* file has one row per volume, all rows equal
E2EScenario ==
    /\ Written
    /\ "qc_motion_abs" \in DOMAIN qcjson.record
    /\ Len(motion) = Len(bvals)
    /\ \A i \in 1..Len(motion) : motion[i] = motion[1]
    /\ Cardinality(Range(qcjson.record["data_eddy_idxs"].v)) = 1

\* the counts of the record are the counts of the b-values above and not
\* above 100
E2ECounts ==
    /\ qcjson.record["data_num_dw_vols"].v =
           Cardinality({v \in 1..Len(bvals) : bvals[v] > 100})
    /\ qcjson.record["data_num_b0_vols"].v =
           Cardinality({v \in 1..Len(bvals) : bvals[v] <= 100})
    /\ qcjson.record["data_num_dw_vols"].v + qcjson.record["data_num_b0_vols"].v
           = Len(bvals)

\* C10, as the specification has it: the means of the record are the two
\* numbers a and r of the rows of the motion file, and the counts are right.
C10_MeansAreTheRow ==
    E2EScenario =>
        /\ qcjson.record["qc_motion_abs_mean"].v = motion[1][1]
        /\ qcjson.record["qc_motion_rel_mean"].v = motion[1][2]
        /\ E2ECounts

\* the dataset of ten volumes of the specification: eight at b=1000, two at
\* b=0, ten rows [0.1, 0.2]
TenVolumeExample ==
    LET bv == [v \in 1..10 |-> IF v <= 8 THEN 1000 ELSE 0]
        d  == BuildData("base.nii.gz", "mask.nii.gz", bv, "bvecs",
                        [v \in 1..10 |-> 1], <<0, 1, 0, 2>>, <<2, 10>>)
        qc == MotionQC([i \in 1..10 |-> <<Float64(1, 10), Float64(2, 10)>>])
    IN /\ qc.motion_abs_mean.v = Float64(1, 10)
       /\ qc.motion_rel_mean.v = Float64(2, 10)
       /\ d.num_dw_vols.v = 8
       /\ d.num_b0_vols.v = 2

\* C10, amended: the means of the record are a and r up to the rounding of
\* the float64 sum and quotient, at most one step per volume away, and they
\* are a and r for one or two volumes and in the example of ten volumes; the
\* counts are right.
C10_MeansAreNearTheRow ==
    /\ TenVolumeExample
    /\ E2EScenario =>
        /\ qcjson.record["qc_motion_abs_mean"].v \in FNear(motion[1][1], Len(motion))
        /\ qcjson.record["qc_motion_rel_mean"].v \in FNear(motion[1][2], Len(motion))
        /\ Len(motion) <= 2 =>
               /\ qcjson.record["qc_motion_abs_mean"].v = motion[1][1]
               /\ qcjson.record["qc_motion_rel_mean"].v = motion[1][2]
        /\ E2ECounts

\* three volumes, of both kinds, and a mean that rounding moved
C10_Witness ==
    /\ E2EScenario
    /\ Len(motion) > 2
    /\ qcjson.record["qc_motion_abs_mean"].v # motion[1][1]
    /\ qcjson.record["data_num_dw_vols"].v >= 1
    /\ qcjson.record["data_num_b0_vols"].v >= 1

====
